---- MODULE Spec2Model ----
(***************************************************************************)
(* Content script of the extension (extension/src/video.ts): the video     *)
(* discovery loop, the command router, the side-panel key binding and the  *)
(* page-unload teardown, as one state machine per document.                *)
(***************************************************************************)
EXTENDS Integers, Sequences, FiniteSets, TLC

\* ---------------------------------------------------------------- bounds
NumVideos == 2
MaxBindings == 2
MaxFrameId == 2
MaxReads == 2
MaxCrops == 1

\* ------------------------------------------------------------ value sets
Videos == 1..NumVideos
BindingIds == 1..MaxBindings
FrameIds == 1..MaxFrameId
NoFrame == 0
NoCall == 0
KeyBindSets == {"default", "custom"}

\* child nodes a <video> can carry: tagName and whether src is non-empty
SourceWithSrc == [tagName |-> "SOURCE", src |-> TRUE]
SourceNoSrc == [tagName |-> "SOURCE", src |-> FALSE]
TrackWithSrc == [tagName |-> "TRACK", src |-> TRUE]
\* the source configurations an element is given: its src attribute and its children
SourceConfigs ==
    { [src |-> FALSE, children |-> <<>>],
      [src |-> TRUE, children |-> <<>>],
      [src |-> FALSE, children |-> <<TrackWithSrc, SourceNoSrc>>],
      [src |-> FALSE, children |-> <<SourceNoSrc, SourceWithSrc>>] }

VARIABLES
    isParentDocument,      \* window.self === window.top
    page,                  \* currentPageDelegate() is defined
    doc,                   \* the <video> elements of the document, in document order
    src,                   \* per element: its src attribute is non-empty
    children,              \* per element: its child nodes
    ignored,               \* elements page.shouldIgnore answers true for
    started,               \* "loading" | "running" | "failed": bind() not yet run, returned, threw
    bindings,              \* the tracked Binding sequence
    nextId,                \* identity of the next Binding object constructed
    unbindCalls,           \* per Binding object: number of unbind() calls
    frameInfoListener,     \* [exists, bound, iframesById]
    frameInfoBroadcaster,  \* [exists, bound, frameId]
    videoInterval,         \* the 1000 ms interval is set
    videoSelectBound,      \* videoSelectController is bound
    selectList,            \* the contents of the array videoSelectController was given
    listening,             \* messageListener is registered with chrome.runtime.onMessage
    unloaded,              \* the beforeunload handler has run
    lastOp,                \* "tick" | "threw" | "other": the handler that ran last
    iframeRect,            \* per frame: getBoundingClientRect() of the iframe hosting it
    lastCall,              \* the last messageListener invocation and the calls it made
    crops,                 \* cropAndResize promises not yet settled
    responses,             \* sendResponse calls, in order
    keyBindSet,            \* the stored 'keyBindSet' setting
    reads,                 \* getSingle('keyBindSet') promises not yet resolved
    nextCall,              \* number of the next bindToggleSidePanel call
    unbindToggleSidePanel, \* the call whose key binding the variable releases, or NoCall
    installed,             \* key bindings whose handler is registered
    sent                   \* toggle-side-panel messages sent by the last key activation

discoveryVars == << bindings, nextId, unbindCalls, frameInfoBroadcaster, selectList >>

domVars == << doc, src, children, ignored >>

routerVars == << lastCall, crops, responses >>

keyVars == << reads, nextCall, unbindToggleSidePanel, installed, sent >>

vars == << isParentDocument, page, domVars, started, discoveryVars, frameInfoListener,
           videoInterval, videoSelectBound, listening, unloaded, lastOp, iframeRect,
           routerVars, keyBindSet, keyVars >>

\* ------------------------------------------------------------- sequences
RECURSIVE IndexOf(_, _, _)
IndexOf(s, x, i) ==
    IF i > Len(s) THEN 0
    ELSE IF s[i] = x THEN i
    ELSE IndexOf(s, x, i + 1)

InSeq(s, x) == IndexOf(s, x, 1) > 0

\* Array.prototype.splice(i, 1)
Splice(s, i) == SubSeq(s, 1, i - 1) \o SubSeq(s, i + 1, Len(s))

InsertAt(s, i, x) == SubSeq(s, 1, i - 1) \o <<x>> \o SubSeq(s, i, Len(s))

\* --------------------------------------------------- hasValidVideoSource
RECURSIVE ChildHasSource(_, _)
ChildHasSource(kids, index) ==
    IF index > Len(kids) THEN FALSE
    ELSE IF kids[index].tagName = "SOURCE" /\ kids[index].src THEN TRUE
    ELSE ChildHasSource(kids, index + 1)

\* mutant: any child element counts, whatever its tag and its src
hasValidVideoSource_AnyChild(videoElement) ==
    IF src[videoElement] THEN TRUE
    ELSE children[videoElement] # <<>>

hasValidVideoSource(videoElement) ==
    IF src[videoElement] THEN TRUE
    ELSE ChildHasSource(children[videoElement], 1)

\* page?.shouldIgnore(videoElement)
shouldIgnore(videoElement) == page /\ videoElement \in ignored

\* mutant: the filter compares against no node, so it never matches
bindingExists_NeverMatches(bs, videoElement) ==
    Len(SelectSeq(bs, LAMBDA b : b.video \notin Videos)) > 0

\* bindings.filter((b) => b.video.isSameNode(videoElement)).length > 0
bindingExists(bs, videoElement) ==
    Len(SelectSeq(bs, LAMBDA b : b.video = videoElement)) > 0

\* new Binding(videoElement, subSyncAvailable, frameInfoBroadcaster?.frameId)
NewBinding(id, videoElement, broadcaster) ==
    [ id |-> id,
      video |-> videoElement,
      subSyncAvailable |-> page,
      frameId |-> IF broadcaster.exists THEN broadcaster.frameId ELSE NoFrame ]

\* -------------------------------------------------- bindToVideoElements
\* mutant: the Binding is pushed before bind() is called on it, so the one whose
\* bind() throws is left in the sequence
RECURSIVE AddLoop_PushBeforeBind(_, _, _, _, _, _)
AddLoop_PushBeforeBind(videoElements, i, bs, id, failing, broadcaster) ==
    IF i > Len(videoElements) THEN [bindings |-> bs, nextId |-> id, threw |-> FALSE]
    ELSE LET videoElement == videoElements[i] IN
         IF ~bindingExists(bs, videoElement)
              /\ hasValidVideoSource(videoElement)
              /\ ~shouldIgnore(videoElement)
         THEN IF videoElement \in failing
              THEN [bindings |-> Append(bs, NewBinding(id, videoElement, broadcaster)),
                    nextId |-> id + 1, threw |-> TRUE]
              ELSE AddLoop_PushBeforeBind(videoElements, i + 1,
                                          Append(bs, NewBinding(id, videoElement, broadcaster)),
                                          id + 1, failing, broadcaster)
         ELSE AddLoop_PushBeforeBind(videoElements, i + 1, bs, id, failing, broadcaster)

\* first loop: a Binding for every element that has none, is valid and is not
\* ignored; `failing` holds the element whose Binding construction or bind()
\* throws in this pass (empty: none does), which ends the pass at that element
RECURSIVE AddLoop(_, _, _, _, _, _)
AddLoop(videoElements, i, bs, id, failing, broadcaster) ==
    IF i > Len(videoElements) THEN [bindings |-> bs, nextId |-> id, threw |-> FALSE]
    ELSE LET videoElement == videoElements[i] IN
         IF ~bindingExists(bs, videoElement)
              /\ hasValidVideoSource(videoElement)
              /\ ~shouldIgnore(videoElement)
         THEN IF videoElement \in failing
              THEN [bindings |-> bs, nextId |-> id, threw |-> TRUE]
              ELSE AddLoop(videoElements, i + 1,
                           Append(bs, NewBinding(id, videoElement, broadcaster)),
                           id + 1, failing, broadcaster)
         ELSE AddLoop(videoElements, i + 1, bs, id, failing, broadcaster)

\* mutant: the element is looked up by node identity alone, its source unchecked
RECURSIVE videoElementExists_SameNodeOnly(_, _, _)
videoElementExists_SameNodeOnly(videoElements, b, j) ==
    IF j > Len(videoElements) THEN FALSE
    ELSE IF videoElements[j] = b.video THEN TRUE
    ELSE videoElementExists_SameNodeOnly(videoElements, b, j + 1)

RECURSIVE videoElementExists(_, _, _)
videoElementExists(videoElements, b, j) ==
    IF j > Len(videoElements) THEN FALSE
    ELSE IF videoElements[j] = b.video /\ hasValidVideoSource(videoElements[j]) THEN TRUE
    ELSE videoElementExists(videoElements, b, j + 1)

\* mutant: a stale Binding is spliced out without unbind() being called
RECURSIVE RemoveLoop_NoUnbind(_, _, _, _)
RemoveLoop_NoUnbind(videoElements, i, bs, calls) ==
    IF i < 1 THEN [bindings |-> bs, unbindCalls |-> calls]
    ELSE IF ~videoElementExists(videoElements, bs[i], 1)
         THEN RemoveLoop_NoUnbind(videoElements, i - 1, Splice(bs, i), calls)
         ELSE RemoveLoop_NoUnbind(videoElements, i - 1, bs, calls)

\* second loop: from the end of the tracked sequence backward
RECURSIVE RemoveLoop(_, _, _, _)
RemoveLoop(videoElements, i, bs, calls) ==
    IF i < 1 THEN [bindings |-> bs, unbindCalls |-> calls]
    ELSE LET b == bs[i] IN
         IF ~videoElementExists(videoElements, b, 1)
         THEN RemoveLoop(videoElements, i - 1, Splice(bs, i),
                         [calls EXCEPT ![b.id] = @ + 1])
         ELSE RemoveLoop(videoElements, i - 1, bs, calls)

\* frameInfoBroadcaster?.unbind() / frameInfoBroadcaster?.bind()
Reevaluate(broadcaster, bs) ==
    IF ~broadcaster.exists THEN broadcaster
    ELSE IF Len(bs) = 0 THEN [broadcaster EXCEPT !.bound = FALSE]
    ELSE [broadcaster EXCEPT !.bound = TRUE]

\* one pass of bindToVideoElements over the current document
bindToVideoElements(failing, broadcaster) ==
    LET added == AddLoop(doc, 1, bindings, nextId, failing, broadcaster) IN
    IF added.threw
    THEN [ bindings |-> added.bindings, nextId |-> added.nextId,
           unbindCalls |-> unbindCalls, broadcaster |-> broadcaster, threw |-> TRUE ]
    ELSE LET removed == RemoveLoop(doc, Len(added.bindings), added.bindings, unbindCalls) IN
         [ bindings |-> removed.bindings, nextId |-> added.nextId,
           unbindCalls |-> removed.unbindCalls,
           broadcaster |-> Reevaluate(broadcaster, removed.bindings), threw |-> FALSE ]

\* ------------------------------------------------------- command envelopes
ExtensionToVideo == "asbplayer-extension-to-video"
Senders == {ExtensionToVideo, "asbplayer-extension-to-player"}

NoRect == [defined |-> FALSE, left |-> 0, top |-> 0, width |-> 0, height |-> 0]
Rects == { [defined |-> TRUE, left |-> 1, top |-> 2, width |-> 4, height |-> 3] }
Offsets == { [left |-> 3, top |-> 5], [left |-> -2, top |-> 0] }

Req(sender, hasMessage, command, rect, frameId, hasSrc) ==
    [ sender |-> sender, hasMessage |-> hasMessage, command |-> command,
      dataUrl |-> "data:image/png", maxWidth |-> 8, maxHeight |-> 6,
      rect |-> rect, frameId |-> frameId, hasSrc |-> hasSrc ]

NoRequest == Req("none", FALSE, "none", NoRect, NoFrame, FALSE)

Requests ==
    UNION { { Req(s, FALSE, "none", NoRect, NoFrame, FALSE) }
            \cup { Req(s, TRUE, c, NoRect, NoFrame, FALSE) :
                     c \in {"copy-to-clipboard", "settings-updated", "unknown"} }
            \cup { Req(s, TRUE, "show-anki-ui", NoRect, NoFrame, h) : h \in BOOLEAN }
            \cup { Req(s, TRUE, "crop-and-resize", r, f, FALSE) :
                     r \in Rects \cup {NoRect}, f \in FrameIds \cup {NoFrame} }
          : s \in Senders }

SettingsRequests == { Req(s, TRUE, "settings-updated", NoRect, NoFrame, FALSE) : s \in Senders }

\* what one messageListener invocation did
Effects(request, threw, returned, fetchCalls, cropCalls, showCalls, updateCalls, bindCalls) ==
    [ request |-> request, threw |-> threw, returned |-> returned,
      fetchCalls |-> fetchCalls, cropAndResizeCalls |-> cropCalls, showCalls |-> showCalls,
      updateSettingsCalls |-> updateCalls, bindToggleSidePanelCalls |-> bindCalls ]

Ignored(request) == Effects(request, FALSE, FALSE, <<>>, <<>>, 0, 0, 0)

Thrown(request) == Effects(request, TRUE, FALSE, <<>>, <<>>, 0, 0, 0)

\* mutant: the looked-up iframe is used without the undefined check
iframeRegistered_Unchecked(frameId) == frameInfoListener.exists

\* frameInfoListener?.iframesById?.[frameId] !== undefined
iframeRegistered(frameId) ==
    frameInfoListener.exists /\ frameId \in frameInfoListener.iframesById

\* mutant: the iframe's left offset is added to top and its top offset to left
cropAndResizeCase_SwappedOffset(request) ==
    IF request.frameId # NoFrame /\ iframeRegistered(request.frameId)
    THEN IF ~request.rect.defined
         THEN Thrown(request)
         ELSE LET rect == [ defined |-> TRUE,
                            left |-> request.rect.left + iframeRect[request.frameId].top,
                            top |-> request.rect.top + iframeRect[request.frameId].left,
                            width |-> request.rect.width,
                            height |-> request.rect.height ]
              IN Effects(request, FALSE, TRUE, <<>>,
                         << [ maxWidth |-> request.maxWidth, maxHeight |-> request.maxHeight,
                              rect |-> rect, dataUrl |-> request.dataUrl ] >>, 0, 0, 0)
    ELSE Effects(request, FALSE, TRUE, <<>>,
                 << [ maxWidth |-> request.maxWidth, maxHeight |-> request.maxHeight,
                      rect |-> request.rect, dataUrl |-> request.dataUrl ] >>, 0, 0, 0)

\* mutant: the case ends with break, not return true
cropAndResizeCase_NoReturnTrue(request) ==
    IF request.frameId # NoFrame /\ iframeRegistered(request.frameId)
    THEN IF ~request.rect.defined
         THEN Thrown(request)
         ELSE LET rect == [ defined |-> TRUE,
                            left |-> request.rect.left + iframeRect[request.frameId].left,
                            top |-> request.rect.top + iframeRect[request.frameId].top,
                            width |-> request.rect.width,
                            height |-> request.rect.height ]
              IN Effects(request, FALSE, FALSE, <<>>,
                         << [ maxWidth |-> request.maxWidth, maxHeight |-> request.maxHeight,
                              rect |-> rect, dataUrl |-> request.dataUrl ] >>, 0, 0, 0)
    ELSE Effects(request, FALSE, FALSE, <<>>,
                 << [ maxWidth |-> request.maxWidth, maxHeight |-> request.maxHeight,
                      rect |-> request.rect, dataUrl |-> request.dataUrl ] >>, 0, 0, 0)

\* case 'crop-and-resize'
cropAndResizeCase(request) ==
    IF request.frameId # NoFrame /\ iframeRegistered(request.frameId)
    THEN IF ~request.rect.defined
         THEN Thrown(request)
         ELSE LET rect == [ defined |-> TRUE,
                            left |-> request.rect.left + iframeRect[request.frameId].left,
                            top |-> request.rect.top + iframeRect[request.frameId].top,
                            width |-> request.rect.width,
                            height |-> request.rect.height ]
              IN Effects(request, FALSE, TRUE, <<>>,
                         << [ maxWidth |-> request.maxWidth, maxHeight |-> request.maxHeight,
                              rect |-> rect, dataUrl |-> request.dataUrl ] >>, 0, 0, 0)
    ELSE Effects(request, FALSE, TRUE, <<>>,
                 << [ maxWidth |-> request.maxWidth, maxHeight |-> request.maxHeight,
                      rect |-> request.rect, dataUrl |-> request.dataUrl ] >>, 0, 0, 0)

\* mutant: show is forwarded whether or not the envelope carries src
showAnkiUiCase_AnySrc(request) == Effects(request, FALSE, FALSE, <<>>, <<>>, 1, 0, 0)

\* case 'show-anki-ui'
showAnkiUiCase(request) ==
    IF ~request.hasSrc
    THEN Effects(request, FALSE, FALSE, <<>>, <<>>, 1, 0, 0)
    ELSE Ignored(request)

\* switch (request.message.command)
dispatch(request) ==
    IF ~request.hasMessage THEN Thrown(request)
    ELSE CASE request.command = "copy-to-clipboard" ->
                Effects(request, FALSE, FALSE, << request.dataUrl >>, <<>>, 0, 0, 0)
           [] request.command = "crop-and-resize" -> cropAndResizeCase(request)
           [] request.command = "show-anki-ui" -> showAnkiUiCase(request)
           [] request.command = "settings-updated" ->
                Effects(request, FALSE, FALSE, <<>>, <<>>, 0, 1, 1)
           [] OTHER -> Ignored(request)

\* mutant: the sender field is not compared
messageListener_AnySender(request) ==
    IF ~isParentDocument THEN Ignored(request)
    ELSE dispatch(request)

\* mutant: the root-only gate is missing
messageListener_AnyDocument(request) ==
    IF request.sender # ExtensionToVideo THEN Ignored(request)
    ELSE dispatch(request)

messageListener(request) ==
    IF ~isParentDocument THEN Ignored(request)
    ELSE IF request.sender # ExtensionToVideo THEN Ignored(request)
    ELSE dispatch(request)

\* ------------------------------------------------------------------ Init
\* the state when the content script is injected, the document holding `loaded`
\* and currentPageDelegate() being defined or not as `delegates` allows
InitWith(loaded, delegates) ==
    /\ isParentDocument \in BOOLEAN
    /\ page \in delegates
    /\ doc = loaded
    /\ src = [v \in Videos |-> InSeq(loaded, v)]
    /\ children = [v \in Videos |-> <<>>]
    /\ ignored = {}
    /\ started = "loading"
    /\ bindings = <<>>
    /\ nextId = 1
    /\ unbindCalls = [id \in BindingIds |-> 0]
    /\ frameInfoListener = [exists |-> FALSE, bound |-> FALSE, iframesById |-> {}]
    /\ frameInfoBroadcaster = [exists |-> FALSE, bound |-> FALSE, frameId |-> NoFrame]
    /\ videoInterval = FALSE
    /\ videoSelectBound = FALSE
    /\ selectList = <<>>
    /\ listening = FALSE
    /\ unloaded = FALSE
    /\ lastOp = "other"
    /\ iframeRect = [f \in FrameIds |-> [left |-> 3, top |-> 5]]
    /\ lastCall = Ignored(NoRequest)
    /\ crops = <<>>
    /\ responses = <<>>
    /\ keyBindSet = "default"
    /\ reads = {}
    /\ nextCall = 1
    /\ unbindToggleSidePanel = NoCall
    /\ installed = {}
    /\ sent = 0

\* the script is injected while the document is still being built
Init == InitWith(<<>>, BOOLEAN)

\* the script is injected into a document that already holds a playable video, on a
\* site without a page delegate
InitLoaded == InitWith(<<1>>, {FALSE})

\* --------------------------------------------------------- DOM mutations
\* A node outside the document is invisible to getElementsByTagName, so what a
\* script does to it while detached shows only when it is inserted: a node is
\* inserted with any source configuration, and a removed node keeps none.
Blank == [src |-> FALSE, children |-> <<>>]

InsertVideo ==
    \E v \in Videos, pos \in 1..(Len(doc) + 1), c \in SourceConfigs :
        /\ ~InSeq(doc, v)
        /\ doc' = InsertAt(doc, pos, v)
        /\ src' = [src EXCEPT ![v] = c.src]
        /\ children' = [children EXCEPT ![v] = c.children]
        /\ UNCHANGED ignored

RemoveVideo ==
    \E v \in Videos :
        /\ InSeq(doc, v)
        /\ doc' = Splice(doc, IndexOf(doc, v, 1))
        /\ src' = [src EXCEPT ![v] = Blank.src]
        /\ children' = [children EXCEPT ![v] = Blank.children]
        /\ ignored' = ignored \ {v}

SetSource ==
    \E v \in Videos, c \in SourceConfigs :
        /\ InSeq(doc, v)
        /\ << c.src, c.children >> # << src[v], children[v] >>
        /\ src' = [src EXCEPT ![v] = c.src]
        /\ children' = [children EXCEPT ![v] = c.children]
        /\ UNCHANGED << doc, ignored >>

\* the page delegate's verdict on an element changes (it reads the element's
\* class and style); at most one element is excluded at a time
SetIgnored ==
    \E v \in Videos :
        /\ page
        /\ InSeq(doc, v)
        /\ ignored' = IF v \in ignored THEN {} ELSE {v}
        /\ UNCHANGED << doc, src, children >>

\* the document is read by the discovery pass alone: its mutations are followed
\* while a pass can still run (before bind() and while the interval is set)
DomMutation ==
    /\ started = "loading" \/ videoInterval
    /\ \/ InsertVideo
       \/ RemoveVideo
       \/ SetSource
       \/ SetIgnored
    /\ lastOp' = "other"
    /\ UNCHANGED << isParentDocument, page, started, discoveryVars, frameInfoListener,
                    videoInterval, videoSelectBound, listening, unloaded, iframeRect,
                    routerVars, keyBindSet, keyVars >>

\* ---------------------------------------------------- bindToggleSidePanel
\* settingsProvider.getSingle('keyBindSet'): a promise, its value read later
bindToggleSidePanel(pending, call) == pending \cup { [call |-> call, value |-> "pending"] }

\* unbindToggleSidePanel?.()
Release(keyBindings, call) == { k \in keyBindings : k.call # call }

\* mutant: the new binding is installed without releasing the held one
Install_NoRelease(keyBindings, held, read) ==
    keyBindings \cup { [call |-> read.call, keyBindSet |-> read.value] }

\* the .then callback of one read: release the held binding, install the new one
Install(keyBindings, held, read) ==
    Release(keyBindings, held) \cup { [call |-> read.call, keyBindSet |-> read.value] }

\* ---------------------------------------------------------------- bind()
BroadcasterFrameId == 1

\* if (isParentDocument) { frameInfoListener = new FrameInfoListener(); ...bind() }
roleListener ==
    IF isParentDocument
    THEN [exists |-> TRUE, bound |-> TRUE, iframesById |-> {}]
    ELSE frameInfoListener

\* mutant: the broadcaster is created in the root as well
roleBroadcaster_AnyDocument ==
    [exists |-> TRUE, bound |-> FALSE, frameId |-> BroadcasterFrameId]

\* else { frameInfoBroadcaster = new FrameInfoBroadcaster() }
roleBroadcaster ==
    IF isParentDocument
    THEN frameInfoBroadcaster
    ELSE [exists |-> TRUE, bound |-> FALSE, frameId |-> BroadcasterFrameId]

Startup ==
    /\ started = "loading"
    /\ \E failing \in {{}} \cup { {v} : v \in Videos } :
        LET listener == roleListener
            broadcaster == roleBroadcaster
            pass == bindToVideoElements(failing, broadcaster)
        IN /\ pass.nextId <= MaxBindings + 1
           /\ frameInfoListener' = listener
           /\ frameInfoBroadcaster' = pass.broadcaster
           /\ bindings' = pass.bindings
           /\ nextId' = pass.nextId
           /\ unbindCalls' = pass.unbindCalls
           /\ IF pass.threw
              THEN /\ started' = "failed"
                   /\ lastOp' = "threw"
                   /\ UNCHANGED << videoInterval, videoSelectBound, selectList, listening,
                                   reads, nextCall >>
              ELSE /\ started' = "running"
                   /\ lastOp' = "tick"
                   /\ videoInterval' = TRUE
                   /\ videoSelectBound' = TRUE
                   /\ selectList' = pass.bindings
                   /\ IF isParentDocument
                      THEN /\ reads' = bindToggleSidePanel(reads, nextCall)
                           /\ nextCall' = nextCall + 1
                      ELSE UNCHANGED << reads, nextCall >>
                   /\ listening' = TRUE
    /\ UNCHANGED << isParentDocument, page, domVars, unloaded, iframeRect, routerVars,
                    keyBindSet, unbindToggleSidePanel, installed, sent >>

\* the interval callback
\* mutant: the selection controller was given a copy of the array, which the
\* pass does not update
Tick_ControllerHoldsCopy ==
    /\ videoInterval
    /\ \E failing \in {{}} \cup { {v} : v \in Videos } :
        LET pass == bindToVideoElements(failing, frameInfoBroadcaster) IN
           /\ pass.nextId <= MaxBindings + 1
           /\ frameInfoBroadcaster' = pass.broadcaster
           /\ bindings' = pass.bindings
           /\ nextId' = pass.nextId
           /\ unbindCalls' = pass.unbindCalls
           /\ selectList' = selectList
           /\ lastOp' = IF pass.threw THEN "threw" ELSE "tick"
    /\ UNCHANGED << isParentDocument, page, domVars, started, frameInfoListener,
                    videoInterval, videoSelectBound, listening, unloaded, iframeRect,
                    routerVars, keyBindSet, keyVars >>

\* setInterval(bindToVideoElements, 1000): one tick
Tick ==
    /\ videoInterval
    /\ \E failing \in {{}} \cup { {v} : v \in Videos } :
        LET pass == bindToVideoElements(failing, frameInfoBroadcaster) IN
           /\ pass.nextId <= MaxBindings + 1
           /\ frameInfoBroadcaster' = pass.broadcaster
           /\ bindings' = pass.bindings
           /\ nextId' = pass.nextId
           /\ unbindCalls' = pass.unbindCalls
           /\ selectList' = pass.bindings
           /\ lastOp' = IF pass.threw THEN "threw" ELSE "tick"
    /\ UNCHANGED << isParentDocument, page, domVars, started, frameInfoListener,
                    videoInterval, videoSelectBound, listening, unloaded, iframeRect,
                    routerVars, keyBindSet, keyVars >>

\* ------------------------------------------------- beforeunload handler
RECURSIVE UnbindAll(_, _, _)
UnbindAll(bs, i, calls) ==
    IF i > Len(bs) THEN calls
    ELSE UnbindAll(bs, i + 1, [calls EXCEPT ![bs[i].id] = @ + 1])

Unload ==
    /\ started = "running"
    /\ unbindCalls' = UnbindAll(bindings, 1, unbindCalls)
    /\ bindings' = <<>>
    /\ selectList' = <<>>
    /\ videoInterval' = FALSE
    /\ videoSelectBound' = FALSE
    /\ frameInfoListener' = [frameInfoListener EXCEPT !.bound = FALSE]
    /\ frameInfoBroadcaster' = [frameInfoBroadcaster EXCEPT !.bound = FALSE]
    /\ installed' = Release(installed, unbindToggleSidePanel)
    /\ listening' = FALSE
    /\ unloaded' = TRUE
    /\ lastOp' = "other"
    /\ UNCHANGED << isParentDocument, page, domVars, started, nextId, iframeRect,
                    routerVars, keyBindSet, reads, nextCall, unbindToggleSidePanel, sent >>

\* --------------------------------------------------------- frame registry
\* a child frame's announcement reaches the root's FrameInfoListener
FrameAnnounce ==
    /\ frameInfoListener.exists /\ frameInfoListener.bound
    /\ \E f \in FrameIds :
        /\ f \notin frameInfoListener.iframesById
        /\ frameInfoListener' = [frameInfoListener EXCEPT !.iframesById = @ \cup {f}]
    /\ lastOp' = "other"
    /\ UNCHANGED << isParentDocument, page, domVars, started, discoveryVars, videoInterval,
                    videoSelectBound, listening, unloaded, iframeRect, routerVars,
                    keyBindSet, keyVars >>

\* layout or scrolling moves an iframe
Layout ==
    /\ \E f \in FrameIds, o \in Offsets :
        /\ o # iframeRect[f]
        /\ iframeRect' = [iframeRect EXCEPT ![f] = o]
    /\ lastOp' = "other"
    /\ UNCHANGED << isParentDocument, page, domVars, started, discoveryVars,
                    frameInfoListener, videoInterval, videoSelectBound, listening, unloaded,
                    routerVars, keyBindSet, keyVars >>

\* ---------------------------------------------------------- the listener
OnMessage(request) ==
    /\ listening
    /\ LET done == messageListener(request) IN
        /\ Len(crops) + Len(responses) + Len(done.cropAndResizeCalls) <= MaxCrops
        /\ nextCall + done.bindToggleSidePanelCalls <= MaxReads + 1
        /\ lastCall' = done
        /\ crops' = crops \o done.cropAndResizeCalls
        /\ IF done.bindToggleSidePanelCalls > 0
           THEN /\ reads' = bindToggleSidePanel(reads, nextCall)
                /\ nextCall' = nextCall + 1
           ELSE UNCHANGED << reads, nextCall >>
    /\ lastOp' = "other"
    /\ UNCHANGED << isParentDocument, page, domVars, started, discoveryVars,
                    frameInfoListener, videoInterval, videoSelectBound, listening, unloaded,
                    iframeRect, responses, keyBindSet, unbindToggleSidePanel, installed,
                    sent >>

\* the image transform's result for one call
cropAndResize(args) == [cropped |-> args]

\* .then((dataUrl) => sendResponse({ dataUrl }))
CropSettles ==
    /\ \E i \in 1..Len(crops) :
        /\ responses' = Append(responses, [dataUrl |-> cropAndResize(crops[i])])
        /\ crops' = Splice(crops, i)
    /\ lastOp' = "other"
    /\ UNCHANGED << isParentDocument, page, domVars, started, discoveryVars,
                    frameInfoListener, videoInterval, videoSelectBound, listening, unloaded,
                    iframeRect, lastCall, keyBindSet, keyVars >>

\* ------------------------------------------------------ side-panel toggle
\* the user changes the key bindings in the extension's settings
SettingsChange ==
    /\ \E k \in KeyBindSets :
        /\ k # keyBindSet
        /\ keyBindSet' = k
    /\ lastOp' = "other"
    /\ UNCHANGED << isParentDocument, page, domVars, started, discoveryVars,
                    frameInfoListener, videoInterval, videoSelectBound, listening, unloaded,
                    iframeRect, routerVars, keyVars >>

\* the storage answers one pending read with the value it holds
StorageRead ==
    /\ \E r \in reads :
        /\ r.value = "pending"
        /\ reads' = (reads \ {r}) \cup { [r EXCEPT !.value = keyBindSet] }
    /\ lastOp' = "other"
    /\ UNCHANGED << isParentDocument, page, domVars, started, discoveryVars,
                    frameInfoListener, videoInterval, videoSelectBound, listening, unloaded,
                    iframeRect, routerVars, keyBindSet, nextCall, unbindToggleSidePanel,
                    installed, sent >>

\* one read's promise resolves and its .then callback runs
ReadResolves ==
    /\ \E r \in reads :
        /\ r.value # "pending"
        /\ reads' = reads \ {r}
        /\ installed' = Install(installed, unbindToggleSidePanel, r)
        /\ unbindToggleSidePanel' = r.call
    /\ lastOp' = "other"
    /\ UNCHANGED << isParentDocument, page, domVars, started, discoveryVars,
                    frameInfoListener, videoInterval, videoSelectBound, listening, unloaded,
                    iframeRect, routerVars, keyBindSet, nextCall, sent >>

\* the toggle shortcut is pressed: every registered handler sends one message
KeyPress ==
    /\ installed # {}
    /\ sent' = Cardinality(installed)
    /\ lastOp' = "other"
    /\ UNCHANGED << isParentDocument, page, domVars, started, discoveryVars,
                    frameInfoListener, videoInterval, videoSelectBound, listening, unloaded,
                    iframeRect, routerVars, keyBindSet, reads, nextCall,
                    unbindToggleSidePanel, installed >>

\* -------------------------------------------------------- specifications
\* the discovery loop against a mutating document
Next ==
    \/ DomMutation
    \/ Startup
    \/ Tick
    \/ Unload

Spec == Init /\ [][Next]_vars

\* the command router
NextRouter ==
    \/ Startup
    \/ FrameAnnounce
    \/ Layout
    \/ \E request \in Requests : OnMessage(request)
    \/ CropSettles
    \/ Unload

SpecRouter == InitLoaded /\ [][NextRouter]_vars

\* the side-panel toggle key binding
NextKeys ==
    \/ Startup
    \/ SettingsChange
    \/ \E request \in SettingsRequests : OnMessage(request)
    \/ StorageRead
    \/ ReadResolves
    \/ KeyPress
    \/ Unload

SpecKeys == InitLoaded /\ [][NextKeys]_vars

\* ================================================================ claims
TrackedVideos == { bindings[i].video : i \in DOMAIN bindings }

TrackedIds == { bindings[i].id : i \in DOMAIN bindings }

\* an element is valid: it has a src, or a child SOURCE that has one
IsValid(v) ==
    src[v] \/ \E i \in DOMAIN children[v] :
                  children[v][i].tagName = "SOURCE" /\ children[v][i].src

ValidVideos == { v \in Videos : InSeq(doc, v) /\ IsValid(v) }

ExcludedVideos == IF page THEN ignored ELSE {}

C2_OneBindingPerNode ==
    /\ [](\A i, j \in DOMAIN bindings : bindings[i].video = bindings[j].video => i = j)
    /\ [][\A k \in DOMAIN bindings' :
             bindings'[k].id >= nextId => bindings'[k].video \notin TrackedVideos]_vars

\* a pass has ended with two elements tracked in the reverse of their document
\* order: the first of them was tracked already when the pass that bound the second ran
C2_Witness ==
    /\ lastOp = "tick"
    /\ Len(bindings) = 2
    /\ Len(doc) = 2
    /\ bindings[1].video = doc[2]
    /\ bindings[2].video = doc[1]

Accepted(call) == isParentDocument /\ call.request.sender = ExtensionToVideo

AcceptedCommand(call, command) ==
    /\ Accepted(call)
    /\ call.request.hasMessage
    /\ call.request.command = command

CropArgs(request, rect) ==
    [ maxWidth |-> request.maxWidth, maxHeight |-> request.maxHeight,
      rect |-> rect, dataUrl |-> request.dataUrl ]

Translated(rect, offset) ==
    [ defined |-> TRUE, left |-> rect.left + offset.left, top |-> rect.top + offset.top,
      width |-> rect.width, height |-> rect.height ]

\* the listener ran in this step (no other handler touches lastCall)
Handled == lastCall' # lastCall

NothingElseChanges ==
    UNCHANGED << bindings, unbindCalls, frameInfoListener, frameInfoBroadcaster, crops,
                 responses, reads, nextCall, unbindToggleSidePanel, installed >>

\* C4: the rect handed to cropAndResize is the message's rect when the message has no
\* frameId, and the message's rect moved by the iframe's left and top, width and
\* height kept, when its frameId is registered.
C4_CropRect ==
    /\ [](AcceptedCommand(lastCall, "crop-and-resize") /\ lastCall.request.frameId = NoFrame
            => lastCall.cropAndResizeCalls
                 = << CropArgs(lastCall.request, lastCall.request.rect) >>)
    /\ [][Len(crops') > Len(crops) /\ lastCall'.request.frameId # NoFrame
            /\ lastCall'.request.frameId \in frameInfoListener.iframesById
          => crops'[Len(crops')]
               = CropArgs(lastCall'.request,
                          Translated(lastCall'.request.rect,
                                     iframeRect[lastCall'.request.frameId]))]_vars

\* a crop with a registered frameId went through with a moved rect
C4_Witness ==
    /\ AcceptedCommand(lastCall, "crop-and-resize")
    /\ lastCall.request.frameId \in frameInfoListener.iframesById
    /\ Len(lastCall.cropAndResizeCalls) = 1
    /\ lastCall.cropAndResizeCalls[1].rect.left # lastCall.request.rect.left
    /\ lastCall.cropAndResizeCalls[1].rect.width = lastCall.request.rect.width

\* C5: a crop-and-resize whose frameId is not in the registry does not fail: it calls
\* cropAndResize with the message's own rect and signals its response, as the same
\* message without frameId does, and its promise is pending or answered.
C5_UnregisteredFrame ==
    ( /\ AcceptedCommand(lastCall, "crop-and-resize")
      /\ lastCall.request.frameId # NoFrame
      /\ lastCall.request.frameId \notin frameInfoListener.iframesById )
    => /\ ~lastCall.threw
       /\ lastCall.returned
       /\ lastCall.cropAndResizeCalls = << CropArgs(lastCall.request, lastCall.request.rect) >>
       /\ \/ \E i \in DOMAIN crops : crops[i] = lastCall.cropAndResizeCalls[1]
          \/ \E i \in DOMAIN responses :
                responses[i] = [dataUrl |-> [cropped |-> lastCall.cropAndResizeCalls[1]]]

\* the response to a crop with an unregistered frameId has been sent, while another
\* frame was registered
C5_Witness ==
    /\ AcceptedCommand(lastCall, "crop-and-resize")
    /\ lastCall.request.frameId # NoFrame
    /\ lastCall.request.frameId \notin frameInfoListener.iframesById
    /\ frameInfoListener.iframesById # {}
    /\ lastCall.request.rect.defined
    /\ Len(responses) = 1

\* C6: a message whose sender is not "asbplayer-extension-to-video" reaches no
\* handler and changes nothing.
C6_WrongSender ==
    /\ [](lastCall.request.sender # ExtensionToVideo => lastCall = Ignored(lastCall.request))
    /\ [][Handled /\ lastCall'.request.sender # ExtensionToVideo => NothingElseChanges]_vars

\* the root has dropped a settings-updated from another sender while a Binding was tracked
C6_Witness ==
    /\ isParentDocument
    /\ listening
    /\ bindings # <<>>
    /\ lastCall.request.sender \notin {ExtensionToVideo, "none"}
    /\ lastCall.request.command = "settings-updated"

\* C7: in a document that is not the root every message is dropped, so only the root
\* ever dispatches: no call is made, nothing is signalled and nothing changes.
C7_RootOnly ==
    /\ [](~isParentDocument =>
            /\ lastCall = Ignored(lastCall.request)
            /\ crops = <<>> /\ responses = <<>> /\ reads = {} /\ installed = {})
    /\ [][Handled /\ ~isParentDocument => NothingElseChanges]_vars

\* an iframe has dropped a crop-and-resize from the extension
C7_Witness ==
    /\ ~isParentDocument
    /\ listening
    /\ lastCall.request.sender = ExtensionToVideo
    /\ lastCall.request.command = "crop-and-resize"
    /\ lastCall.request.rect.defined

\* C8: for a show-anki-ui the root accepted, show is called exactly when the envelope
\* has no src; with src nothing is called and nothing changes.
C8_ShowAnkiUi ==
    /\ [](AcceptedCommand(lastCall, "show-anki-ui") =>
            lastCall = [Ignored(lastCall.request) EXCEPT
                          !.showCalls = IF lastCall.request.hasSrc THEN 0 ELSE 1])
    /\ [][Handled /\ AcceptedCommand(lastCall', "show-anki-ui") => NothingElseChanges]_vars

\* the root has accepted a show-anki-ui that carries src
C8_Witness ==
    /\ AcceptedCommand(lastCall, "show-anki-ui")
    /\ lastCall.request.hasSrc
    /\ lastCall.showCalls = 0

\* ------------------------------------------------------ side-panel toggle
\* C9: at most one toggle key binding is installed at any time, it is the one the
\* variable unbindToggleSidePanel releases, and a key activation sends at most one
\* toggle-side-panel message.
C9_OneKeyBinding ==
    /\ Cardinality(installed) <= 1
    /\ \A k \in installed : k.call = unbindToggleSidePanel
    /\ sent <= 1

\* the second install has replaced the first and the key was pressed
C9_Witness ==
    /\ nextCall = 3
    /\ reads = {}
    /\ Cardinality(installed) = 1
    /\ sent = 1

\* C10: once every settings read has resolved, the binding left active is the one
\* derived by the latest bindToggleSidePanel call.
C10_LastWriteWins ==
    (reads = {} /\ nextCall > 1 /\ ~unloaded) =>
        /\ unbindToggleSidePanel = nextCall - 1
        /\ \A k \in installed : k.call = nextCall - 1

\* --------------------------------------------------- discovery, continued
\* a pass of bindToVideoElements has just ended, by returning or by an exception
PassEnded == lastOp \in {"tick", "threw"}

\* the elements the first loop of a pass would construct a Binding for
Eligible ==
    { v \in ValidVideos : v \notin ExcludedVideos /\ v \notin TrackedVideos }

\* C11: in a child frame, at the end of every interval tick the broadcaster is bound
\* exactly when the tracked sequence is non-empty.
C11_BroadcasterIffBindings ==
    (~isParentDocument /\ started = "running" /\ PassEnded) =>
        (frameInfoBroadcaster.bound <=> bindings # <<>>)

\* the same, for the ticks that reach the re-evaluation at the end of the pass
C11_WhenPassCompletes ==
    (~isParentDocument /\ started = "running" /\ lastOp = "tick") =>
        (frameInfoBroadcaster.bound <=> bindings # <<>>)

FirstEligible ==
    doc[CHOOSE i \in DOMAIN doc :
            /\ doc[i] \in Eligible
            /\ \A j \in 1..(i - 1) : doc[j] \notin Eligible]

\* C13: when an interval tick is ended by a failing construction, the element it
\* failed on is left without a Binding and the interval is still set; the Bindings
\* tracked before that tick are all still tracked and none was unbound by it; and
\* the next tick reaches that element again: it binds it, or fails on it again.
C13_FailedElementRetried ==
    /\ []((lastOp = "threw" /\ started = "running") => (Eligible # {} /\ videoInterval))
    /\ [][(lastOp' = "threw" /\ started = "running")
             => /\ Len(bindings') >= Len(bindings)
                /\ SubSeq(bindings', 1, Len(bindings)) = bindings
                /\ unbindCalls' = unbindCalls]_vars
    /\ [][(lastOp = "threw" /\ started = "running" /\ lastOp' \in {"tick", "threw"})
             => \/ FirstEligible \in { bindings'[k].video : k \in DOMAIN bindings' }
                \/ (lastOp' = "threw" /\ bindings' = bindings)]_vars

\* an interval tick has been ended by a failing construction while a Binding of an
\* earlier tick, stale by now, is still tracked and has not been unbound
C13_Witness ==
    /\ lastOp = "threw"
    /\ started = "running"
    /\ \E i \in DOMAIN bindings :
           /\ bindings[i].video \notin ValidVideos
           /\ unbindCalls[bindings[i].id] = 0

\* C14: after a pass ended by a failing construction, whichever pass it was, later
\* ticks still run (the interval is set), the listener is installed, at most the one
\* failing element is left unbound, no stale Binding is left tracked, and in a child
\* frame the broadcaster is bound exactly when a Binding is tracked.
C14_FailureIsolated ==
    lastOp = "threw" =>
        /\ videoInterval
        /\ listening
        /\ Cardinality(Eligible) <= 1
        /\ TrackedVideos \subseteq ValidVideos
        /\ frameInfoBroadcaster.exists => (frameInfoBroadcaster.bound <=> bindings # <<>>)

\* the same for the first loop alone, in an interval tick
C14_OthersStillBound ==
    (lastOp = "threw" /\ started = "running") => Cardinality(Eligible) <= 1

\* the same for the removal loop alone, in an interval tick
C14_StaleStillRemoved ==
    (lastOp = "threw" /\ started = "running") => TrackedVideos \subseteq ValidVideos

\* C15: no call of the listener throws, and a message with the wrong sender, one
\* received in an iframe, one without a message field and one with an unknown
\* command are returned from with no call made and nothing returned.
C15_MalformedDropped ==
    /\ ~lastCall.threw
    /\ (\/ ~Accepted(lastCall)
        \/ ~lastCall.request.hasMessage
        \/ lastCall.request.command = "unknown") => lastCall = Ignored(lastCall.request)

\* the same for the messages with a message field
C15_WithMessageField ==
    lastCall.request.hasMessage => ~lastCall.threw

\* the same for the messages that are not a crop-and-resize without a rect
C15_WithRect ==
    (lastCall.request.hasMessage /\ lastCall.request.command = "crop-and-resize")
        => (lastCall.request.rect.defined \/ ~lastCall.threw)

\* ------------------------------------------------------ teardown and roles
\* C16: once the beforeunload handler has run, no Binding is tracked, the interval
\* is cleared, the listener is removed, the selection controller, the frame listener
\* and the broadcaster are unbound, and no side-panel key binding is installed.
C16_TornDownStays ==
    unloaded =>
        /\ bindings = <<>>
        /\ ~videoInterval
        /\ ~listening
        /\ ~videoSelectBound
        /\ ~frameInfoListener.bound
        /\ ~frameInfoBroadcaster.bound
        /\ installed = {}

\* the same without the key binding
C16_AllButKeyBinding ==
    unloaded =>
        /\ bindings = <<>>
        /\ ~videoInterval
        /\ ~listening
        /\ ~videoSelectBound
        /\ ~frameInfoListener.bound
        /\ ~frameInfoBroadcaster.bound

\* the crop-and-resize call recorded in lastCall was made with a translated rect
TranslationUsed ==
    /\ lastCall.cropAndResizeCalls # <<>>
    /\ lastCall.request.rect.defined
    /\ lastCall.cropAndResizeCalls[1].rect # lastCall.request.rect

\* C17: the role never changes; once bind() has run, the root holds a frame listener
\* and no broadcaster and any other document a broadcaster and no frame listener;
\* before, neither exists; and a translated crop rect is only ever produced in a
\* root that holds a frame listener.
C17_RoleExclusive ==
    /\ [](/\ frameInfoListener.exists <=> (started # "loading" /\ isParentDocument)
          /\ frameInfoBroadcaster.exists <=> (started # "loading" /\ ~isParentDocument)
          /\ TranslationUsed => (isParentDocument /\ frameInfoListener.exists))
    /\ [][isParentDocument' = isParentDocument]_vars

\* the root, holding a frame listener with a registered frame and no broadcaster,
\* has translated a crop rect
C17_Witness ==
    /\ isParentDocument
    /\ frameInfoListener.exists
    /\ frameInfoListener.iframesById # {}
    /\ ~frameInfoBroadcaster.exists
    /\ TranslationUsed

\* C18: at the end of every interval tick no tracked Binding refers to an element
\* that is absent from the document or fails the validity check.
C18_NoStaleAfterTick ==
    (started = "running" /\ PassEnded) => TrackedVideos \subseteq ValidVideos

\* the same for the ticks that reach the removal loop, which also removes nothing
\* but stale Bindings: every Binding of a present and valid element stays tracked
C18_WhenPassCompletes ==
    /\ []((started = "running" /\ lastOp = "tick") => TrackedVideos \subseteq ValidVideos)
    /\ [][lastOp' = "tick"
             => \A i \in DOMAIN bindings :
                    bindings[i].video \in ValidVideos
                        => /\ bindings[i].id \in { bindings'[k].id : k \in DOMAIN bindings' }
                           /\ unbindCalls'[bindings[i].id] = unbindCalls[bindings[i].id]]_vars

\* two stale Bindings, adjacent and the whole of the sequence, have been removed
\* by one pass
C18_BothRemoved ==
    /\ lastOp = "tick"
    /\ bindings = <<>>
    /\ nextId = 3
    /\ unbindCalls[1] = 1
    /\ unbindCalls[2] = 1
    /\ ~unloaded

\* C19: right after a pass in which no construction failed, every valid element of
\* the document that the page delegate does not exclude is tracked; and every
\* Binding a step constructs is tracked after it and is for an element that is in
\* the document, valid and not excluded.
C19_ValidBoundInvalidNot ==
    /\ [](lastOp = "tick" => \A v \in ValidVideos : v \in ExcludedVideos \/ v \in TrackedVideos)
    /\ [][LET created == { k \in DOMAIN bindings' : bindings'[k].id >= nextId } IN
             /\ Cardinality(created) = nextId' - nextId
             /\ \A k \in created :
                    /\ bindings'[k].video \in ValidVideos
                    /\ bindings'[k].video \notin ExcludedVideos]_vars

\* a pass has ended having bound the one valid element the page delegate does not
\* exclude, and nothing else, in a document holding an excluded valid element too
C19_Witness ==
    /\ lastOp = "tick"
    /\ \E v \in ValidVideos : v \in ExcludedVideos /\ v \notin TrackedVideos
    /\ \E v \in ValidVideos : v \notin ExcludedVideos /\ v \in TrackedVideos
    /\ nextId = 2

\* C20: in every state from the construction of the selection controller on, the
\* list it was given holds exactly the tracked Bindings, in their order, and holds
\* no Binding on which unbind() has been called.
C20_ControllerSeesLiveList ==
    started = "running" =>
        /\ selectList = bindings
        /\ \A i \in DOMAIN selectList : unbindCalls[selectList[i].id] = 0

\* the controller's list holds a Binding constructed after the controller was, and
\* no longer holds the one it was constructed with, unbound since
C20_Witness ==
    /\ started = "running"
    /\ ~unloaded
    /\ Len(selectList) = 1
    /\ selectList[1].id = 2
    /\ unbindCalls[1] = 1

\* ------------------------------------------------- side-panel toggle, continued
\* C21: once the beforeunload handler has run and every settings read has resolved,
\* no side-panel key binding is installed.
C21_NoKeyBindingAfterUnload ==
    (unloaded /\ reads = {}) => installed = {}

\* the same for an unload with no read in flight: the handler leaves no key binding
C21_WhenNoReadInFlight ==
    [][(~unloaded /\ unloaded' /\ reads = {}) => installed' = {}]_vars

\* C22: in a child frame no settings read is ever started, no key binding is ever
\* installed or held, and no toggle-side-panel message is ever sent; and a step
\* starts a read only in the root, in bind() or for a settings-updated command the
\* listener accepted.
C22_ChildInstallsNothing ==
    /\ [](~isParentDocument =>
              /\ reads = {}
              /\ nextCall = 1
              /\ installed = {}
              /\ unbindToggleSidePanel = NoCall
              /\ sent = 0)
    /\ [][nextCall' # nextCall =>
              /\ isParentDocument
              /\ \/ started = "loading"
                 \/ AcceptedCommand(lastCall', "settings-updated")]_vars

\* a child frame, set up and listening, has received a settings-updated command
\* from the extension and has started no read and installed nothing
C22_Witness ==
    /\ ~isParentDocument
    /\ started = "running"
    /\ ~unloaded
    /\ lastCall.request.sender = ExtensionToVideo
    /\ lastCall.request.hasMessage
    /\ lastCall.request.command = "settings-updated"
    /\ reads = {}
    /\ installed = {}

====
